---------------------------- MODULE Spec2Model ----------------------------
(***************************************************************************)
(* A model of cmd/compile/internal/ssa/magic.go: the constants used to     *)
(* strength reduce n-bit divisions and divisibility tests by a constant.   *)
(*                                                                         *)
(* TLC's integers are 32 bits wide, the program's are 64 bits wide and its *)
(* math/big values wider still.  Every uint64, int64 and big.Int of the    *)
(* program is therefore a sequence of limbs, least significant first, each *)
(* limb in 0..LimbBase-1, without leading zero limbs (zero is << >>).  A   *)
(* signed value is a record [neg, abs], as math/big keeps it.  Only bit    *)
(* counts and shift amounts (n, s, k) are TLC integers.                    *)
(***************************************************************************)
EXTENDS Integers, Sequences, FiniteSets, TLC

(***************************************************************************)
(* Unsigned multi-precision arithmetic (math/big's nat, and the uint64     *)
(* arithmetic of the program on top of it).                                *)
(***************************************************************************)
LimbBits == 8
LimbBase == 2 ^ LimbBits

\* Forced(v) is TRUE; TLC evaluates v to decide it, so a value that later steps
\* use is computed once, here, and not within each of its uses.
Forced(v) == Len(v) >= 0

Limb(a, i) == IF i <= Len(a) THEN a[i] ELSE 0

RECURSIVE Norm(_)
Norm(a) ==
    IF a = << >> THEN a
    ELSE IF a[Len(a)] = 0 THEN Norm(SubSeq(a, 1, Len(a) - 1)) ELSE a

RECURSIVE NatOf(_)
NatOf(v) == IF v = 0 THEN << >> ELSE <<v % LimbBase>> \o NatOf(v \div LimbBase)

RECURSIVE AddFrom(_, _, _, _)
AddFrom(a, b, i, cy) ==
    IF i > Len(a) /\ i > Len(b)
    THEN IF cy = 0 THEN << >> ELSE <<cy>>
    ELSE LET t == Limb(a, i) + Limb(b, i) + cy
         IN  <<t % LimbBase>> \o AddFrom(a, b, i + 1, t \div LimbBase)

NatAdd(a, b) == AddFrom(a, b, 1, 0)

RECURSIVE SubFrom(_, _, _, _)
SubFrom(a, b, i, bw) ==
    IF i > Len(a) THEN << >>
    ELSE LET t == a[i] - Limb(b, i) - bw
         IN  <<t % LimbBase>> \o SubFrom(a, b, i + 1, IF t < 0 THEN 1 ELSE 0)

\* a - b for a >= b.
NatSub(a, b) == Norm(SubFrom(a, b, 1, 0))

RECURSIVE CmpFrom(_, _, _)
CmpFrom(a, b, i) ==
    IF i = 0 THEN 0
    ELSE IF a[i] < b[i] THEN -1
    ELSE IF a[i] > b[i] THEN 1
    ELSE CmpFrom(a, b, i - 1)

\* -1, 0 or 1 as a < b, a = b or a > b.
NatCmp(a, b) ==
    IF Len(a) < Len(b) THEN -1
    ELSE IF Len(a) > Len(b) THEN 1
    ELSE CmpFrom(a, b, Len(a))

NatLe(a, b) == NatCmp(a, b) <= 0
NatLt(a, b) == NatCmp(a, b) < 0

RECURSIVE MulLimbFrom(_, _, _, _)
MulLimbFrom(a, m, i, cy) ==
    IF i > Len(a)
    THEN IF cy = 0 THEN << >> ELSE <<cy>>
    ELSE LET t == a[i] * m + cy
         IN  <<t % LimbBase>> \o MulLimbFrom(a, m, i + 1, t \div LimbBase)

Zeros(k) == [i \in 1..k |-> 0]

RECURSIVE MulFrom(_, _, _)
MulFrom(a, b, j) ==
    IF j > Len(b) THEN << >>
    ELSE NatAdd(Zeros(j - 1) \o MulLimbFrom(a, b[j], 1, 0), MulFrom(a, b, j + 1))

NatMul(a, b) == Norm(MulFrom(a, b, 1))

\* a * 2^k.
NatShl(a, k) ==
    IF a = << >> THEN a
    ELSE Zeros(k \div LimbBits) \o MulLimbFrom(a, 2 ^ (k % LimbBits), 1, 0)

\* floor(a / 2^k).
NatShr(a, k) ==
    LET q == k \div LimbBits
        r == k % LimbBits
        len == Len(a) - q
    IN  IF len <= 0 THEN << >>
        ELSE Norm([i \in 1..len |->
                     (a[i + q] \div 2 ^ r)
                       + (Limb(a, i + q + 1) % 2 ^ r) * 2 ^ (LimbBits - r)])

\* Bit i of a (bit 0 is the least significant).
NatBit(a, i) == (Limb(a, i \div LimbBits + 1) \div 2 ^ (i % LimbBits)) % 2

RECURSIVE SmallBitLen(_)
SmallBitLen(v) == IF v = 0 THEN 0 ELSE 1 + SmallBitLen(v \div 2)

\* The number of bits of a: 0 for 0, else 1 + floor(log2 a).
NatBitLen(a) ==
    IF a = << >> THEN 0
    ELSE LimbBits * (Len(a) - 1) + SmallBitLen(a[Len(a)])

\* a mod 2^k.
NatLow(a, k) ==
    LET q == k \div LimbBits
        r == k % LimbBits
    IN  Norm([i \in 1..(IF r = 0 THEN q ELSE q + 1) |->
                IF i <= q THEN Limb(a, i) ELSE Limb(a, i) % 2 ^ r])

\* One limb of binary long division: bits i..0 of limb v are brought down into
\* the remainder r one at a time, and the quotient bits are shifted into q.
RECURSIVE DivBits(_, _, _, _, _)
DivBits(v, d, i, q, r) ==
    IF i < 0 THEN <<q, r>>
    ELSE LET r2 == AddFrom(r, r, 1, (v \div 2 ^ i) % 2)
             ge == NatLe(d, r2)
         IN  DivBits(v, d, i - 1,
                     AddFrom(q, q, 1, IF ge THEN 1 ELSE 0),
                     IF ge THEN NatSub(r2, d) ELSE r2)

RECURSIVE DivFrom(_, _, _, _)
DivFrom(a, d, j, qr) ==
    IF j = 0 THEN qr
    ELSE LET step == DivBits(a[j], d, LimbBits - 1, qr[1], qr[2])
         IN  \* The test only makes TLC finish this limb before it descends.
             IF Len(step) = 2 THEN DivFrom(a, d, j - 1, step) ELSE step

\* <<floor(a / d), a mod d>> for d # 0, by binary long division.
NatDivMod(a, d) == DivFrom(a, d, Len(a), << << >>, << >> >>)

RECURSIVE SmallAnd(_, _)
SmallAnd(u, v) ==
    IF u = 0 \/ v = 0 THEN 0
    ELSE (u % 2) * (v % 2) + 2 * SmallAnd(u \div 2, v \div 2)

\* Bitwise and.
NatAnd(a, b) ==
    Norm([i \in 1..(IF Len(a) < Len(b) THEN Len(a) ELSE Len(b)) |->
            SmallAnd(a[i], b[i])])

(***************************************************************************)
(* Signed values (int64, and math/big's Int): a sign and a magnitude.      *)
(***************************************************************************)
Zero == << >>
One == <<1>>
Two == <<2>>

Pos(a) == [neg |-> FALSE, abs |-> a]
Neg(a) == [neg |-> a # Zero, abs |-> a]

IsZero(z) == z.abs = Zero

\* z1 + z2.
BigAdd(z1, z2) ==
    IF z1.neg = z2.neg THEN [neg |-> z1.neg, abs |-> NatAdd(z1.abs, z2.abs)]
    ELSE IF NatLe(z2.abs, z1.abs)
         THEN LET a == NatSub(z1.abs, z2.abs) IN [neg |-> z1.neg /\ a # Zero, abs |-> a]
         ELSE [neg |-> z2.neg, abs |-> NatSub(z2.abs, z1.abs)]

\* z1 - z2.
BigSub(z1, z2) == BigAdd(z1, [neg |-> ~z2.neg /\ z2.abs # Zero, abs |-> z2.abs])

\* z << k.
BigLsh(z, k) == [neg |-> z.neg, abs |-> NatShl(z.abs, k)]

\* z1 * z2.
BigMul(z1, z2) ==
    LET a == NatMul(z1.abs, z2.abs)
    IN  [neg |-> (z1.neg # z2.neg) /\ a # Zero, abs |-> a]

\* (*big.Int).Div: Euclidean division (the remainder is never negative), for
\* z2 # 0.  The quotient is truncated first and adjusted when the truncated
\* remainder is negative, as math/big does.
BigDiv(z1, z2) ==
    LET qr == NatDivMod(z1.abs, z2.abs)
        q == [neg |-> (z1.neg # z2.neg) /\ qr[1] # Zero, abs |-> qr[1]]
        rneg == z1.neg /\ qr[2] # Zero
    IN  IF ~rneg THEN q
        ELSE IF z2.neg THEN BigAdd(q, Pos(One)) ELSE BigSub(q, Pos(One))

\* (*big.Int).BitLen: the length of the absolute value in bits.
BigBitLen(z) == NatBitLen(z.abs)

\* (*big.Int).Bit: bit i of z in two's complement, which for a negative z is
\* the complement of bit i of |z| - 1.
BigBit(z, i) ==
    IF z.neg THEN 1 - NatBit(NatSub(z.abs, One), i) ELSE NatBit(z.abs, i)

\* (*big.Int).SetBit(z, i, 0) for z >= 0: z with bit i cleared.
BigClearBit(z, i) ==
    IF NatBit(z.abs, i) = 1 THEN Pos(NatSub(z.abs, NatShl(One, i))) ELSE z

\* floor(z / 2^k): an arithmetic shift right.
BigRsh(z, k) ==
    IF z.neg
    THEN Neg(NatShr(NatAdd(z.abs, NatSub(NatShl(One, k), One)), k))
    ELSE Pos(NatShr(z.abs, k))

(***************************************************************************)
(* Machine words.                                                          *)
(***************************************************************************)
WordBits == 64

\* uint64(c) for an int64 c: the same 64 bits read as unsigned.
Uint64(c) == IF c.neg THEN NatSub(NatShl(One, WordBits), c.abs) ELSE c.abs

\* uint64 arithmetic wraps around.
ShlU64(a, k) == NatLow(NatShl(a, k), WordBits)
ShrU64(a, k) == NatShr(a, k)
MulU64(a, b) == NatLow(NatMul(a, b), WordBits)
SubU64(a, b) ==
    IF NatLe(b, a) THEN NatSub(a, b)
    ELSE NatSub(NatAdd(a, NatShl(One, WordBits)), b)

\* ^uint64(0).
MaxUint64 == NatSub(NatShl(One, WordBits), One)

RECURSIVE TrailingFrom(_, _)
TrailingFrom(d, i) ==
    IF i = WordBits \/ NatBit(d, i) = 1 THEN i ELSE TrailingFrom(d, i + 1)

\* bits.TrailingZeros64: WordBits for 0.
TrailingZeros64(d) == TrailingFrom(d, 0)

\* (*big.Int).Uint64 of z >= 0: the low 64 bits.
BigUint64(z) == NatLow(z.abs, WordBits)

(***************************************************************************)
(* magic.go.  A call either returns its data, or panics, and then the     *)
(* result is the record [panic |-> message].                               *)
(***************************************************************************)
Panic(msg) == [panic |-> msg]

\* A constant taken whole, without the reduction to n bits.
ConstXUnreduced(n, c) == Uint64(c)

\* d := uint64(c) << (64 - n) >> (64 - n)
ConstXValue(n, c) == ShrU64(ShlU64(Uint64(c), WordBits - n), WordBits - n)

umagicOK(n, c) ==
    LET d == ConstXValue(n, c)
    IN  NatAnd(d, SubU64(d, One)) # Zero

\* The dividend rounded down: 2^(n+s) alone.
umagicDividendFloor(n, s, C) == BigLsh(Pos(One), n + s)

\* 2^(n+s)+c-1, which divided by c gives the ceiling of 2^(n+s)/c.
umagicDividend(n, s, C) == BigSub(BigAdd(BigLsh(Pos(One), n + s), C), Pos(One))

\* An assertion that never fires.
umagicBitUnchecked(M, n) == TRUE

\* M.Bit(int(n)) != 1 is the panic; this is its negation.
umagicBitSet(M, n) == BigBit(M, n) = 1

\* The multiplier with bit n left in.
umagicMultiplierUncleared(M, n) == BigUint64(M)

\* M.SetBit(M, int(n), 0); m := M.Uint64()
umagicMultiplier(M, n) == BigUint64(BigClearBit(M, n))

umagic(n, c) ==
    LET d == ConstXValue(n, c)
        C == Pos(d)
        s == BigBitLen(C)
    IN  IF IsZero(C) THEN Panic("division by zero")
        ELSE LET M == BigDiv(umagicDividend(n, s, C), C)
             IN  IF ~umagicBitSet(M, n) THEN Panic("n+1st bit isn't set")
                 ELSE [s |-> s, m |-> umagicMultiplier(M, n)]

\* The check without its test for a negative c.
smagicOKUnsigned(n, c) ==
    LET u == Uint64(c)
    IN  NatAnd(u, SubU64(u, One)) # Zero

smagicOK(n, c) ==
    IF c.neg THEN FALSE
    ELSE LET u == Uint64(c)
         IN  NatAnd(u, SubU64(u, One)) # Zero

\* The shift of the unsigned case, one more than the signed one.
smagicShiftUnsigned(C) == BigBitLen(C)

\* s := C.BitLen() - 1
smagicShift(C) == BigBitLen(C) - 1

\* The dividend rounded down: 2^(n+s) alone.
smagicDividendFloor(n, s, C) == BigLsh(Pos(One), n + s)

\* 2^(n+s)+c-1.  n + uint(s) is unsigned arithmetic: for s = -1 (c = 0) it
\* wraps around to n - 1.
smagicDividend(n, s, C) == BigSub(BigAdd(BigLsh(Pos(One), n + s), C), Pos(One))

\* The multiplier with its high bit cleared, as the unsigned case does.
smagicMultiplierCleared(M, n) == BigUint64(BigClearBit(M, n - 1))

\* m := M.Uint64()
smagicMultiplier(M, n) == BigUint64(M)

smagic(n, c) ==
    LET C == c
        s == smagicShift(C)
    IN  IF IsZero(C) THEN Panic("division by zero")
        ELSE LET M == BigDiv(smagicDividend(n, s, C), C)
             IN  IF BigBit(M, n) # 0 THEN Panic("n+1st bit is set")
                 ELSE IF BigBit(M, n - 1) = 0 THEN Panic("nth bit is not set")
                 ELSE [s |-> s, m |-> smagicMultiplier(M, n)]

udivisibleOK(n, c) ==
    LET d == ConstXValue(n, c)
    IN  NatAnd(d, SubU64(d, One)) # Zero

\* m = m * (2 - m*d0)
NewtonStep(m, d0) == MulU64(m, SubU64(Two, MulU64(m, d0)))

\* One Newton step short: the inverse is right to 48 bits only.
udivisibleInverseShort(d0) ==
    LET m1 == NewtonStep(d0, d0)
        m2 == IF Forced(m1) THEN NewtonStep(m1, d0) ELSE Zero
        m3 == IF Forced(m2) THEN NewtonStep(m2, d0) ELSE Zero
    IN  IF Forced(m3) THEN NewtonStep(m3, d0) ELSE Zero

\* The multiplicative inverse of d0 modulo 2^64 by Newton's method: five
\* steps from the initial guess d0.
udivisibleInverse(d0) ==
    LET m1 == NewtonStep(d0, d0)
        m2 == IF Forced(m1) THEN NewtonStep(m1, d0) ELSE Zero
        m3 == IF Forced(m2) THEN NewtonStep(m2, d0) ELSE Zero
        m4 == IF Forced(m3) THEN NewtonStep(m3, d0) ELSE Zero
    IN  IF Forced(m4) THEN NewtonStep(m4, d0) ELSE Zero

\* The divisor with its trailing zeros left in.
udivisibleOddPartUnshifted(d, k) == d

\* d0 := d >> uint(k)
udivisibleOddPart(d, k) == ShrU64(d, k)

udivisible(n, c) ==
    LET d == ConstXValue(n, c)
        k == TrailingZeros64(d)
        d0 == udivisibleOddPart(d, k)
        mask == ShrU64(MaxUint64, WordBits - n)
        m == NatAnd(udivisibleInverse(d0), mask)
    IN  \* max := mask / d is an integer division: it panics for d = 0.
        IF d = Zero THEN Panic("integer divide by zero")
        ELSE [k |-> k, m |-> m, max |-> NatDivMod(mask, d)[1]]

(***************************************************************************)
(* The code generated from the constants, as the comments of magic.go give *)
(* it: what the rewritten division or test computes for an operand x.      *)
(***************************************************************************)
Pow2(j) == NatShl(One, j)

\* x * (m + 2^n) >> (n+s): a full-precision product, a logical shift.
UnsignedQuotient(n, x, r) == NatShr(NatMul(x, NatAdd(r.m, Pow2(n))), n + r.s)

\* x * m >> (n+s) + (x < 0 ? 1 : 0): signed x times unsigned m at full
\* precision, an arithmetic shift.
SignedQuotient(n, x, r) ==
    BigAdd(BigRsh(BigMul(x, Pos(r.m)), n + r.s), IF x.neg THEN Pos(One) ELSE Pos(Zero))

\* RotRight(v, k) on n bits.
RotateRight(n, v, k) ==
    LET r == k % n
    IN  NatAdd(NatShr(v, r), NatLow(NatShl(v, n - r), n))

\* RotRight(x*m mod 2^n, k), which the generated code compares with max.
DivisibleRotated(n, x, r) == RotateRight(n, NatLow(NatMul(x, r.m), n), r.k)

(***************************************************************************)
(* The inputs.  Widths up to ExhaustiveWidth bits are enumerated in full:  *)
(* every n-bit constant, zero-extended or sign-extended in its int64, and  *)
(* every n-bit operand.  Wider ones are sampled: the values up to          *)
(* SmallMax, the values within NearMax of 2^(n/2), 2^(n-1), 2^n and 2^63,  *)
(* the powers of ten, and for operands the values next to the first and    *)
(* the last multiples of the divisor.                                      *)
(***************************************************************************)
Widths == {8, 16, 32, 64}

ExhaustiveWidth == 8
SmallMax == 12
NearMax == 2
MaxTenPower == 18

Near(a, r) ==
    {NatAdd(a, NatOf(i)) : i \in 0..r}
      \cup {NatSub(a, NatOf(i)) : i \in {j \in 0..r : NatLe(NatOf(j), a)}}

SmallNats == {NatOf(v) : v \in 0..SmallMax}

RECURSIVE TenPower(_)
TenPower(k) ==
    IF k = 0 THEN One
    ELSE LET p == TenPower(k - 1)
         IN  IF Forced(p) THEN NatMul(p, NatOf(10)) ELSE Zero

Landmarks(n) ==
    Near(Pow2(n \div 2), NearMax) \cup Near(Pow2(n - 1), NearMax)
      \cup Near(Pow2(n), NearMax)

\* The magnitudes of the constants tried at width n.
Magnitudes(n) ==
    (IF n <= ExhaustiveWidth THEN {NatOf(v) : v \in 0..(2 ^ n - 1)}
     ELSE SmallNats \cup {TenPower(k) : k \in 1..MaxTenPower})
      \cup Landmarks(n) \cup Near(Pow2(WordBits - 1), NearMax)

\* The int64 constants tried at width n.
Consts(n) ==
    {Pos(a) : a \in {b \in Magnitudes(n) : NatLt(b, Pow2(WordBits - 1))}}
      \cup {Neg(a) : a \in {b \in Magnitudes(n) :
                             /\ NatLe(b, Pow2(WordBits - 1))
                             /\ n <= ExhaustiveWidth =>
                                  \/ NatLe(b, Pow2(n - 1))
                                  \/ NatLe(Pow2(n), b)}}

\* The values next to the multiples d, 2d and qmax*d of d, for qmax*d the
\* largest multiple up to top.
Multiples(d, top) ==
    IF d = Zero THEN {}
    ELSE LET qmax == NatDivMod(top, d)[1]
         IN  UNION {Near(NatMul(q, d), 1) : q \in {One, Two, qmax}}

\* The unsigned n-bit operands tried against the n-bit divisor d.
UnsignedOperands(n, d) ==
    IF n <= ExhaustiveWidth THEN {NatOf(v) : v \in 0..(2 ^ n - 1)}
    ELSE {a \in SmallNats \cup Landmarks(n) \cup Multiples(d, NatSub(Pow2(n), One)) :
            NatLt(a, Pow2(n))}

\* The signed n-bit operands tried against the divisor of magnitude d.
SignedOperands(n, d) ==
    LET mags == IF n <= ExhaustiveWidth THEN {NatOf(v) : v \in 0..(2 ^ (n - 1))}
                ELSE SmallNats \cup Landmarks(n) \cup Multiples(d, Pow2(n - 1))
    IN  {Pos(a) : a \in {b \in mags : NatLt(b, Pow2(n - 1))}}
          \cup {Neg(a) : a \in {b \in mags : NatLe(b, Pow2(n - 1))}}

(***************************************************************************)
(* The state machine: the compiler takes a division or a divisibility test *)
(* of width n by the constant c, asks the applicability check, computes    *)
(* the constants, and the code it emits runs on an operand x giving y.     *)
(***************************************************************************)
VARIABLES op, n, c, pc, ok, res, x, y

vars == <<op, n, c, pc, ok, res, x, y>>

Ops == {"umagic", "smagic", "udivisible"}

NotCalled == [called |-> FALSE]
Panicked(r) == "panic" \in DOMAIN r
Returned(r) == "m" \in DOMAIN r

Init ==
    /\ op \in Ops
    /\ n \in Widths
    /\ c \in Consts(n)
    /\ pc = "start"
    /\ ok = FALSE
    /\ res = NotCalled
    /\ x = Pos(Zero)
    /\ y = Pos(Zero)

CallUmagicOK ==
    /\ pc = "start" /\ op = "umagic"
    /\ ok' = umagicOK(n, c)
    /\ pc' = "checked"
    /\ UNCHANGED <<op, n, c, res, x, y>>

CallSmagicOK ==
    /\ pc = "start" /\ op = "smagic"
    /\ ok' = smagicOK(n, c)
    /\ pc' = "checked"
    /\ UNCHANGED <<op, n, c, res, x, y>>

CallUdivisibleOK ==
    /\ pc = "start" /\ op = "udivisible"
    /\ ok' = udivisibleOK(n, c)
    /\ pc' = "checked"
    /\ UNCHANGED <<op, n, c, res, x, y>>

CallUmagic ==
    /\ pc = "checked" /\ op = "umagic"
    /\ res' = umagic(n, c)
    /\ pc' = "computed"
    /\ UNCHANGED <<op, n, c, ok, x, y>>

CallSmagic ==
    /\ pc = "checked" /\ op = "smagic"
    /\ res' = smagic(n, c)
    /\ pc' = "computed"
    /\ UNCHANGED <<op, n, c, ok, x, y>>

CallUdivisible ==
    /\ pc = "checked" /\ op = "udivisible"
    /\ res' = udivisible(n, c)
    /\ pc' = "computed"
    /\ UNCHANGED <<op, n, c, ok, x, y>>

RunUnsignedDivide ==
    /\ pc = "computed" /\ op = "umagic" /\ Returned(res)
    /\ \E a \in UnsignedOperands(n, ConstXValue(n, c)) :
          /\ x' = Pos(a)
          /\ y' = Pos(UnsignedQuotient(n, a, res))
    /\ pc' = "applied"
    /\ UNCHANGED <<op, n, c, ok, res>>

RunSignedDivide ==
    /\ pc = "computed" /\ op = "smagic" /\ Returned(res)
    /\ \E a \in SignedOperands(n, c.abs) :
          /\ x' = a
          /\ y' = SignedQuotient(n, a, res)
    /\ pc' = "applied"
    /\ UNCHANGED <<op, n, c, ok, res>>

RunDivisibleTest ==
    /\ pc = "computed" /\ op = "udivisible" /\ Returned(res)
    /\ \E a \in UnsignedOperands(n, ConstXValue(n, c)) :
          /\ x' = Pos(a)
          /\ y' = Pos(DivisibleRotated(n, a, res))
    /\ pc' = "applied"
    /\ UNCHANGED <<op, n, c, ok, res>>

Next ==
    \/ CallUmagicOK
    \/ CallSmagicOK
    \/ CallUdivisibleOK
    \/ CallUmagic
    \/ CallSmagic
    \/ CallUdivisible
    \/ RunUnsignedDivide
    \/ RunSignedDivide
    \/ RunDivisibleTest

Spec == Init /\ [][Next]_vars

(***************************************************************************)
(* What the properties are stated with.  None of it is taken from the      *)
(* code: a quotient is recognised by multiplying back, never by the        *)
(* division that produced it.                                              *)
(***************************************************************************)
\* c reduced to its n-bit unsigned value: the d in 0..2^n-1 with d = c mod 2^n.
Reduced(w, z) ==
    LET r == NatLow(z.abs, w)
    IN  IF z.neg /\ r # Zero THEN NatSub(Pow2(w), r) ELSE r

\* q = floor(a / d), for d > 0.
IsFloorQuotient(q, a, d) ==
    /\ NatLe(NatMul(q, d), a)
    /\ NatLt(a, NatAdd(NatMul(q, d), d))

\* q = trunc(a / d) for signed q and a and d > 0: rounded toward zero.
IsTruncQuotient(q, a, d) ==
    /\ IsFloorQuotient(q.abs, a.abs, d)
    /\ q.abs # Zero => q.neg = a.neg
    /\ q.abs = Zero => ~q.neg

\* M = ceil(N / d), for d > 0 and M > 0.
IsCeilQuotient(M, N, d) ==
    /\ NatLt(NatMul(NatSub(M, One), d), N)
    /\ NatLe(N, NatMul(M, d))

\* s = ceil(log2 d), for d > 1.
IsCeilLog2(s, d) ==
    /\ s >= 1
    /\ NatLt(Pow2(s - 1), d)
    /\ NatLe(d, Pow2(s))

\* d divides a, for d > 0.
Divides(d, a) == NatDivMod(a, d)[2] = Zero

IsPowerOfTwo(a) == \E j \in 0..WordBits : a = Pow2(j)

\* c is an n-bit signed value.
InSignedRange(w, z) ==
    IF z.neg THEN NatLe(z.abs, Pow2(w - 1)) ELSE NatLt(z.abs, Pow2(w - 1))

Computed == pc = "computed"
Applied == pc = "applied"

\* C1: whenever umagicOK(n, c) holds, the unsigned quotient computed from
\* umagic(n, c)'s {s, m} as (x * (m + 2^n)) >> (n + s) is floor(x / d), for d
\* the n-bit unsigned value of c.
C1_UnsignedDivision ==
    (op = "umagic" /\ Applied /\ ok) =>
        /\ ~y.neg
        /\ IsFloorQuotient(y.abs, x.abs, Reduced(n, c))

\* The scenario of the specification: n = 8, c = 3 gives s = 2, m = 86, and
\* x = 255 gives 85.
C1_Witness ==
    /\ op = "umagic" /\ Applied /\ ok
    /\ n = 8 /\ c = Pos(NatOf(3))
    /\ res = [s |-> 2, m |-> NatOf(86)]
    /\ x = Pos(NatOf(255)) /\ y = Pos(NatOf(85))

\* C2: for 0 < c < 2^(n-1) with smagicOK(n, c), the signed quotient computed
\* from smagic(n, c)'s {s, m} as ((x * m) >> (n + s)) + (1 if x < 0) is
\* trunc(x / c).
C2_SignedDivision ==
    (op = "smagic" /\ Applied /\ ok /\ ~c.neg /\ NatLt(c.abs, Pow2(n - 1))) =>
        IsTruncQuotient(y, x, c.abs)

\* n = 8, c = 3, x = -128: the quotient is -42.
C2_Witness ==
    /\ op = "smagic" /\ Applied /\ ok
    /\ n = 8 /\ c = Pos(NatOf(3))
    /\ x = Neg(NatOf(128)) /\ y = Neg(NatOf(42))

\* C3: whenever udivisibleOK(n, c) holds, x mod d = 0 exactly when
\* RotateRight_n((x * m) mod 2^n, k) <= max, for {k, m, max} = udivisible(n, c).
C3_DivisibilityTest ==
    (op = "udivisible" /\ Applied /\ ok) =>
        (Divides(Reduced(n, c), x.abs) <=> NatLe(y.abs, res.max))

\* n = 8, c = 6 (k = 1, m = 171, max = 42): x = 252 = 42 * 6 rotates to 42.
C3_Witness ==
    /\ op = "udivisible" /\ Applied /\ ok
    /\ n = 8 /\ c = Pos(NatOf(6))
    /\ res = [k |-> 1, m |-> NatOf(171), max |-> NatOf(42)]
    /\ x = Pos(NatOf(252)) /\ y = Pos(NatOf(42))

\* C4 as stated: for c in the n-bit range each check returns false exactly
\* when c is 0, 1, -1 or a power of two.
C4_Original ==
    (pc = "checked" /\ InSignedRange(n, c)) =>
        (~ok <=> (c.abs = Zero \/ c.abs = One \/ (~c.neg /\ IsPowerOfTwo(c.abs))))

\* C4 amended: umagicOK and udivisibleOK return false exactly when the n-bit
\* unsigned value d of c is 0 or a power of two (1 included), so that -1,
\* whose d is 2^n - 1, is accepted; smagicOK returns false exactly when c is
\* negative, 0 or a power of two (1 included).
C4_ApplicabilityChecks ==
    pc = "checked" =>
        IF op = "smagic"
        THEN ~ok <=> (c.neg \/ c.abs = Zero \/ IsPowerOfTwo(c.abs))
        ELSE ~ok <=> (Reduced(n, c) = Zero \/ IsPowerOfTwo(Reduced(n, c)))

\* smagicOK has rejected -3, which is neither 0, 1, -1 nor a power of two.
C4_Witness ==
    /\ op = "smagic" /\ pc = "checked" /\ ~ok
    /\ n = 8 /\ c = Neg(NatOf(3))

\* C5 as stated: for every int64 c with smagicOK(n, c), smagic(n, c) returns,
\* and 2^(n-1) <= m < 2^n.
C5_Original ==
    (op = "smagic" /\ Computed /\ ok) =>
        /\ Returned(res)
        /\ NatBit(res.m, n - 1) = 1
        /\ NatLt(res.m, Pow2(n))

\* C5 amended: the same for every c with 0 < c < 2^n and smagicOK(n, c).
C5_SignedMultiplier ==
    (op = "smagic" /\ Computed /\ ok /\ NatLt(c.abs, Pow2(n))) =>
        /\ Returned(res)
        /\ NatBit(res.m, n - 1) = 1
        /\ NatLt(res.m, Pow2(n))

\* n = 8, c = 255, the largest constant below 2^n: s = 7, m = ceil(2^15/255) = 129.
C5_Witness ==
    /\ op = "smagic" /\ Computed /\ ok
    /\ n = 8 /\ c = Pos(NatOf(255))
    /\ res = [s |-> 7, m |-> NatOf(129)]

\* C6: whenever umagicOK(n, c) holds, umagic(n, c) returns s = ceil(log2 d) and
\* m with 0 <= m < 2^n such that M = m + 2^n is ceil(2^(n+s) / d); so
\* 2^n <= M < 2^(n+1) and the assertion on bit n has not fired.
C6_UnsignedMultiplier ==
    (op = "umagic" /\ Computed /\ ok) =>
        /\ Returned(res)
        /\ res.s = NatBitLen(Reduced(n, c))
        /\ IsCeilLog2(res.s, Reduced(n, c))
        /\ NatLt(res.m, Pow2(n))
        /\ IsCeilQuotient(NatAdd(res.m, Pow2(n)), Pow2(n + res.s), Reduced(n, c))

\* n = 64, c = 3: s = 2 and m = 0x5555555555555556.
C6_Witness ==
    /\ op = "umagic" /\ Computed /\ ok
    /\ n = 64 /\ c = Pos(NatOf(3))
    /\ res = [s |-> 2, m |-> <<86, 85, 85, 85, 85, 85, 85, 85>>]

\* The constants tried at width n that are congruent to z modulo 2^n.
Congruent(w, z) == {z2 \in Consts(w) : Reduced(w, z2) = Reduced(w, z)}

\* C7: constants congruent modulo 2^n get the same answer from umagicOK and
\* from udivisibleOK and, when that is true, the same data from umagic and
\* from udivisible.
C7_UnsignedModulo ==
    /\ (op = "umagic" /\ pc = "checked") =>
          \A c2 \in Congruent(n, c) : umagicOK(n, c2) = ok
    /\ (op = "udivisible" /\ pc = "checked") =>
          \A c2 \in Congruent(n, c) : udivisibleOK(n, c2) = ok
    /\ (op = "umagic" /\ Computed /\ ok) =>
          \A c2 \in Congruent(n, c) : umagic(n, c2) = res
    /\ (op = "udivisible" /\ Computed /\ ok) =>
          \A c2 \in Congruent(n, c) : udivisible(n, c2) = res

\* n = 8, c = -3: the constant 253 is congruent to it, and the data are those
\* of 253 (s = 8, m = ceil(2^16/253) - 2^8 = 4).
C7_Witness ==
    /\ op = "umagic" /\ Computed /\ ok
    /\ n = 8 /\ c = Neg(NatOf(3))
    /\ Pos(NatOf(253)) \in Congruent(n, c)
    /\ res = [s |-> 8, m |-> NatOf(4)]

\* C8 as stated: smagic(8, 3) returns s = 0 and m = ceil(2^8 / 3) = 86, and m
\* has bit 7 set.
C8_Original ==
    (op = "smagic" /\ Computed /\ n = 8 /\ c = Pos(NatOf(3))) =>
        /\ Returned(res)
        /\ res.s = 0
        /\ res.m = NatOf(86)
        /\ IsCeilQuotient(res.m, Pow2(8), NatOf(3))
        /\ NatBit(res.m, 7) = 1

\* C8 amended: smagic(8, 3) returns s = 1 and m = ceil(2^9 / 3) = 171, and m
\* has bit 7 set.
C8_SignedScenario ==
    (op = "smagic" /\ Computed /\ n = 8 /\ c = Pos(NatOf(3))) =>
        /\ Returned(res)
        /\ res.s = 1
        /\ res.m = NatOf(171)
        /\ IsCeilQuotient(res.m, Pow2(9), NatOf(3))
        /\ NatBit(res.m, 7) = 1

\* smagic(8, 3) has returned, with s = 1 and m = 171.
C8_Witness ==
    /\ op = "smagic" /\ Computed /\ n = 8 /\ c = Pos(NatOf(3))
    /\ res = [s |-> 1, m |-> NatOf(171)]

\* C9: whenever udivisibleOK(n, c) holds, udivisible(n, c) returns the number
\* k of trailing zero bits of d and an m with 0 < m < 2^n and
\* (d0 * m) mod 2^n = 1 for d0 = d >> k.
C9_ModularInverse ==
    (op = "udivisible" /\ Computed /\ ok) =>
        /\ Returned(res)
        /\ NatLow(Reduced(n, c), res.k) = Zero
        /\ NatBit(Reduced(n, c), res.k) = 1
        /\ res.m # Zero
        /\ NatLt(res.m, Pow2(n))
        /\ NatLow(NatMul(NatShr(Reduced(n, c), res.k), res.m), n) = One

\* n = 64, c = 6: k = 1 and m = 0xAAAAAAAAAAAAAAAB, the inverse of 3.
C9_Witness ==
    /\ op = "udivisible" /\ Computed /\ ok
    /\ n = 64 /\ c = Pos(NatOf(6))
    /\ res.k = 1
    /\ res.m = <<171, 170, 170, 170, 170, 170, 170, 170>>

\* C10: a constant that umagicOK rejects makes umagic panic (a division by
\* zero for d = 0, the assertion on bit n otherwise), and a constant that
\* smagicOK rejects makes smagic panic: neither returns data.
C10_FailLoud ==
    /\ (op = "umagic" /\ Computed /\ ~ok) =>
          /\ Panicked(res)
          /\ res.panic = IF Reduced(n, c) = Zero THEN "division by zero"
                         ELSE "n+1st bit isn't set"
    /\ (op = "smagic" /\ Computed /\ ~ok) => Panicked(res)

\* n = 8, c = 4, a power of two: the assertion on bit n has fired.
C10_Witness ==
    /\ op = "umagic" /\ Computed /\ ~ok
    /\ n = 8 /\ c = Pos(NatOf(4))
    /\ res = Panic("n+1st bit isn't set")

=============================================================================
